---------------------------- MODULE Spec2Model ----------------------------
(***************************************************************************)
(* funcfmt: a template is compiled once by to_format_pieces into a         *)
(* sequence of pieces (literal characters and callback references) and     *)
(* rendered any number of times by render.                                 *)
(*                                                                         *)
(* Characters are one-element strings, Rust Strings and Vec<char> are      *)
(* sequences of characters, Rust indices are 0-based (tmpl_vec[i] of the   *)
(* source is tmpl_vec[i + 1] here).                                        *)
(***************************************************************************)
EXTENDS Integers, Sequences, FiniteSets, TLC

VARIABLES
    fmap,            \* the FormatMap<T> the caller built: key -> callback
    tmpl,            \* the bytes of the template, a UTF-8 &str
    tmpl_vec,        \* tmpl.chars().collect::<Vec<_>>()
    pc,              \* "to_format_pieces" | "idle" | "render"
    chars,           \* the peekable iterator: number of items consumed
    start_word_idx,  \* 0, or the index just past the opening brace
    out,             \* the FormatPieces<T> being built
    lookups,         \* the words handed to self.get, in order
    result,          \* what to_format_pieces returned
    data,            \* the argument of the render call in progress / last made
    piece_idx,       \* render's position in `for piece in self`
    rout,            \* render's output String
    calls,           \* the keys whose callback the last render call invoked
    rresult,         \* what the last render call returned
    rendered,        \* data value -> result of the first render with it
    repeated,        \* the data values rendered more than once
    other            \* a second thread's render call over the same pieces

vars == <<fmap, tmpl, tmpl_vec, pc, chars, start_word_idx, out, lookups, result,
          data, piece_idx, rout, calls, rresult, rendered, repeated, other>>

scan_vars == <<chars, start_word_idx, out, lookups, result>>
render_vars == <<data, piece_idx, rout, calls, rresult, rendered, repeated, other>>

---------------------------------------------------------------------------
(* Bounds of the model *)

MaxTmplLen == 5
MaxKeys == 2

(* the longest template two threads render at once *)
MaxSharedLen == 4

(* the longest piece sequence a caller builds by hand, and how far around  *)
(* the largest length whose capacity fits a machine word the long piece    *)
(* sequences reach                                                         *)
MaxPieces == 2
CapacityWindow == 2

(* usize::MAX of the narrowest pointer width Rust builds for (16 bits) *)
UsizeMax == 65535

OpenBrace == "{"
CloseBrace == "}"

(* The scalar value U+4E00 of the tests' templates (three bytes in UTF-8), *)
(* one character like any other                                            *)
Ideograph == "U+4E00"

(* The characters templates are built from: both braces, an ASCII letter   *)
(* and a multi-byte scalar value.                                          *)
Alphabet == {OpenBrace, CloseBrace, "k", Ideograph}

RECURSIVE SeqsUpTo(_, _)
SeqsUpTo(S, n) ==
    IF n = 0 THEN {<<>>}
    ELSE LET shorter == SeqsUpTo(S, n - 1)
         IN  shorter \cup {Append(s, c) : s \in shorter, c \in S}

Templates == SeqsUpTo(Alphabet, MaxTmplLen)

(* The keys a caller may register: the empty key, a plain key, and keys    *)
(* that contain braces (nothing stops their insertion).                    *)
PlainKeys == {<<>>, <<"k">>}
BraceKeys == {<<CloseBrace>>, <<OpenBrace, CloseBrace>>}
KeyUniverse == PlainKeys \cup BraceKeys

(* The data values handed to render *)
DataValues == {<<>>, <<"Q">>}

---------------------------------------------------------------------------
(* Option and Result values *)

None == [tag |-> "None"]
Some(v) == [tag |-> "Some", val |-> v]
Ok(v) == [tag |-> "Ok", val |-> v]
Err(e) == [tag |-> "Err", err |-> e]

UnknownKey(k) == [kind |-> "UnknownKey", key |-> k]
NoData(k) == [kind |-> "NoData", key |-> k]
ImbalancedBrackets == [kind |-> "ImbalancedBrackets"]
Overflow == [kind |-> "Overflow"]

(* No call has returned yet *)
NoResult == [tag |-> "NoResult"]

Char(c) == [tag |-> "Char", c |-> c]
Formatter(k, f) == [tag |-> "Formatter", key |-> k, cb |-> f]

---------------------------------------------------------------------------
(* Callbacks: fn(&T) -> Option<String> *)

(* |e| Some(format!("{e} foo {e}")) *)
cb_foo(e) == Some(e \o <<" ", "f", "o", "o", " ">> \o e)

(* |_| None *)
cb_nodata(e) == None

(* a caller's callback whose answer depends on the data: nothing to        *)
(* produce for the empty string, the data itself otherwise                 *)
cb_nonempty(e) == IF e = <<>> THEN None ELSE Some(e)

Callbacks == {"foo", "nodata", "nonempty"}

(* (f.cb)(data) *)
CallCb(f, e) ==
    CASE f = "foo" -> cb_foo(e)
      [] f = "nodata" -> cb_nodata(e)
      [] f = "nonempty" -> cb_nonempty(e)

(* FxHashMap<String, FormatterCallback<T>>: the maps with at most MaxKeys   *)
(* entries whose keys are in Keys                                          *)
FormatMaps(Keys) ==
    UNION {[D -> Callbacks] : D \in {K \in SUBSET Keys : Cardinality(K) <= MaxKeys}}

(* self.get(&word) *)
Get(m, word) == IF word \in DOMAIN m THEN Some(m[word]) ELSE None

---------------------------------------------------------------------------
(* Checked usize arithmetic *)

checked_add(a, b) == IF a + b > UsizeMax THEN None ELSE Some(a + b)
checked_sub(a, b) == IF a - b < 0 THEN None ELSE Some(a - b)
(* a product that wraps around the machine word *)
wrapping_mul(a, b) == Some((a * b) % (UsizeMax + 1))
checked_mul(a, b) == IF a * b > UsizeMax THEN None ELSE Some(a * b)

---------------------------------------------------------------------------
(* to_format_pieces *)

(* a slice that starts one item early, at the opening brace *)
WordFromBrace(v, s, idx) == SubSeq(v, s, idx)

(* &tmpl_vec[s..idx] collected into a String *)
Word(v, s, idx) == SubSeq(v, s + 1, idx)

(* a scanner that never looks ahead *)
NextIsCloseNever(v, idx) == FALSE

(* a scanner that takes the end of the template for the second brace *)
NextIsCloseOrEnd(v, idx) == idx + 1 >= Len(v) \/ v[idx + 2] = CloseBrace

(* chars.next_if(|&(_, c)| c == &'}').is_some(), looking past item idx *)
NextIsClose(v, idx) == idx + 1 < Len(v) /\ v[idx + 2] = CloseBrace

(* pieces pushed at the wrong end *)
PushFront(o, piece) == <<piece>> \o o

(* out.push(piece) *)
Push(o, piece) == Append(o, piece)

(* The UTF-8 encoding of one scalar value: an ASCII character is one byte, *)
(* written here as the character itself; U+4E00 is the bytes E4 B8 80     *)
encode_utf8(c) == IF c = Ideograph THEN <<"E4", "B8", "80">> ELSE <<c>>

(* the bytes of the str holding the characters s *)
RECURSIVE as_bytes(_)
as_bytes(s) == IF s = <<>> THEN <<>> ELSE encode_utf8(Head(s)) \o as_bytes(Tail(s))

(* the number of bytes of the scalar value whose first byte is b *)
utf8_char_width(b) == IF b = "E4" THEN 3 ELSE 1

(* the scalar value a whole encoding stands for *)
decode_utf8(bs) == IF bs = <<"E4", "B8", "80">> THEN Ideograph ELSE bs[1]

(* every byte taken for a character *)
bytes_as_chars(b) == b

(* str::chars: decodes one scalar value after the other *)
RECURSIVE str_chars(_)
str_chars(b) ==
    IF b = <<>>
    THEN <<>>
    ELSE LET w == utf8_char_width(b[1])
         IN  <<decode_utf8(SubSeq(b, 1, w))>> \o str_chars(SubSeq(b, w + 1, Len(b)))

(* The locals and the return value of a render call no thread has made yet *)
NoCall ==
    [pc |-> "idle", data |-> <<>>, piece_idx |-> 0, out |-> <<>>,
     calls |-> <<>>, result |-> NoResult]

(* The state when to_format_pieces is entered with the map m and the       *)
(* template t                                                              *)
Start(m, t) ==
    /\ fmap = m
    /\ tmpl = as_bytes(t)
    /\ tmpl_vec = str_chars(as_bytes(t))
    /\ pc = "to_format_pieces"
    /\ chars = 0
    /\ start_word_idx = 0
    /\ out = <<>>
    /\ lookups = <<>>
    /\ result = NoResult
    /\ data = <<>>
    /\ piece_idx = 0
    /\ rout = <<>>
    /\ calls = <<>>
    /\ rresult = NoResult
    /\ rendered = [d \in DataValues |-> NoResult]
    /\ repeated = {}
    /\ other = NoCall

(* Compile once, render any number of times. A word cut from a template    *)
(* never holds a brace, so a key with a brace is never found: the maps     *)
(* here hold plain keys only.                                              *)
Init == \E m \in FormatMaps(PlainKeys), t \in Templates : Start(m, t)

(* a placeholder between an escaped opening and an escaped closing brace *)
BraceRuns == <<OpenBrace, OpenBrace, OpenBrace, "k", CloseBrace, CloseBrace, CloseBrace>>

(* The compile phase alone, over the maps that also hold keys with braces  *)
InitCompile ==
    \E m \in FormatMaps(KeyUniverse), t \in Templates \cup {BraceRuns} : Start(m, t)

Scanning == pc = "to_format_pieces" /\ chars < Len(tmpl_vec)

(* the item chars.next() yields *)
Cur == tmpl_vec[chars + 1]

(* return Err(e) / the ? operator *)
Return(r) ==
    /\ result' = r
    /\ pc' = "idle"

(* the marker set to the index of the brace itself: 0 for a brace at 0 *)
OpenPlaceholderAtBrace ==
    /\ Scanning
    /\ Cur = OpenBrace /\ start_word_idx = 0
    /\ start_word_idx' = chars
    /\ chars' = chars + 1
    /\ UNCHANGED <<fmap, tmpl, tmpl_vec, pc, out, lookups, result>>
    /\ UNCHANGED render_vars

(* ('{', 0) => start_word_idx = idx + 1 *)
OpenPlaceholder ==
    /\ Scanning
    /\ Cur = OpenBrace /\ start_word_idx = 0
    /\ LET n == checked_add(chars, 1)
       IN  IF n = None
           THEN /\ Return(Err(Overflow))
                /\ UNCHANGED <<chars, start_word_idx>>
           ELSE /\ start_word_idx' = n.val
                /\ chars' = chars + 1
                /\ UNCHANGED <<result, pc>>
    /\ UNCHANGED <<fmap, tmpl, tmpl_vec, out, lookups>>
    /\ UNCHANGED render_vars

(* the escape arm without start_word_idx = 0: the placeholder stays open *)
EscapedOpenStaysOpen ==
    /\ Scanning
    /\ Cur = OpenBrace /\ start_word_idx # 0
    /\ checked_sub(chars, start_word_idx) = Some(0)
    /\ out' = Push(out, Char(Cur))
    /\ chars' = chars + 1
    /\ UNCHANGED <<fmap, tmpl, tmpl_vec, pc, start_word_idx, lookups, result>>
    /\ UNCHANGED render_vars

(* ('{', s) if idx - s == 0 => push '{', close the placeholder *)
EscapedOpen ==
    /\ Scanning
    /\ Cur = OpenBrace /\ start_word_idx # 0
    /\ checked_sub(chars, start_word_idx) = Some(0)
    /\ out' = Push(out, Char(Cur))
    /\ start_word_idx' = 0
    /\ chars' = chars + 1
    /\ UNCHANGED <<fmap, tmpl, tmpl_vec, pc, lookups, result>>
    /\ UNCHANGED render_vars

(* the arm ('{', _) left out: the brace falls through to (_, s) if s > 0 *)
NestedOpenAsKeyChar ==
    /\ Scanning
    /\ Cur = OpenBrace /\ start_word_idx # 0
    /\ checked_sub(chars, start_word_idx) # Some(0)
    /\ chars' = chars + 1
    /\ UNCHANGED <<fmap, tmpl, tmpl_vec, pc, start_word_idx, out, lookups, result>>
    /\ UNCHANGED render_vars

(* ('{', _) => Err(ImbalancedBrackets); the guard before it may overflow *)
NestedOpen ==
    /\ Scanning
    /\ Cur = OpenBrace /\ start_word_idx # 0
    /\ checked_sub(chars, start_word_idx) # Some(0)
    /\ IF checked_sub(chars, start_word_idx) = None
       THEN Return(Err(Overflow))
       ELSE Return(Err(ImbalancedBrackets))
    /\ UNCHANGED <<fmap, tmpl, tmpl_vec, chars, start_word_idx, out, lookups>>
    /\ UNCHANGED render_vars

(* the second '}' of the pair left in the iterator *)
EscapedCloseOneChar ==
    /\ Scanning
    /\ Cur = CloseBrace /\ start_word_idx = 0
    /\ NextIsClose(tmpl_vec, chars)
    /\ out' = Push(out, Char(Cur))
    /\ chars' = chars + 1
    /\ UNCHANGED <<fmap, tmpl, tmpl_vec, pc, start_word_idx, lookups, result>>
    /\ UNCHANGED render_vars

(* ('}', 0) if the next item is '}' => push '}', both items consumed *)
EscapedClose ==
    /\ Scanning
    /\ Cur = CloseBrace /\ start_word_idx = 0
    /\ NextIsClose(tmpl_vec, chars)
    /\ out' = Push(out, Char(Cur))
    /\ chars' = chars + 2
    /\ UNCHANGED <<fmap, tmpl, tmpl_vec, pc, start_word_idx, lookups, result>>
    /\ UNCHANGED render_vars

(* ('}', 0) => Err(ImbalancedBrackets) *)
StrayClose ==
    /\ Scanning
    /\ Cur = CloseBrace /\ start_word_idx = 0
    /\ ~NextIsClose(tmpl_vec, chars)
    /\ Return(Err(ImbalancedBrackets))
    /\ UNCHANGED <<fmap, tmpl, tmpl_vec, chars, start_word_idx, out, lookups>>
    /\ UNCHANGED render_vars

(* ('}', s) => look the word up; a Formatter piece or Err(UnknownKey) *)
ClosePlaceholder ==
    /\ Scanning
    /\ Cur = CloseBrace /\ start_word_idx # 0
    /\ LET word == Word(tmpl_vec, start_word_idx, chars)
           f == Get(fmap, word)
       IN  /\ lookups' = Append(lookups, word)
           /\ IF f = None
              THEN /\ Return(Err(UnknownKey(word)))
                   /\ UNCHANGED <<chars, start_word_idx, out>>
              ELSE /\ out' = Push(out, Formatter(word, f.val))
                   /\ start_word_idx' = 0
                   /\ chars' = chars + 1
                   /\ UNCHANGED <<result, pc>>
    /\ UNCHANGED <<fmap, tmpl, tmpl_vec>>
    /\ UNCHANGED render_vars

(* a character of a key that is pushed as a literal as well *)
KeyCharPushed ==
    /\ Scanning
    /\ Cur \notin {OpenBrace, CloseBrace} /\ start_word_idx > 0
    /\ out' = Push(out, Char(Cur))
    /\ chars' = chars + 1
    /\ UNCHANGED <<fmap, tmpl, tmpl_vec, pc, start_word_idx, lookups, result>>
    /\ UNCHANGED render_vars

(* (_, s) if s > 0 => {} *)
KeyChar ==
    /\ Scanning
    /\ Cur \notin {OpenBrace, CloseBrace} /\ start_word_idx > 0
    /\ chars' = chars + 1
    /\ UNCHANGED <<fmap, tmpl, tmpl_vec, pc, start_word_idx, out, lookups, result>>
    /\ UNCHANGED render_vars

(* (c, _) => out.push(FormatPiece::Char(c)) *)
LiteralChar ==
    /\ Scanning
    /\ Cur \notin {OpenBrace, CloseBrace} /\ start_word_idx = 0
    /\ out' = Push(out, Char(Cur))
    /\ chars' = chars + 1
    /\ UNCHANGED <<fmap, tmpl, tmpl_vec, pc, start_word_idx, lookups, result>>
    /\ UNCHANGED render_vars

(* an end of input that reports a placeholder left open *)
ReturnPiecesOrImbalanced ==
    /\ pc = "to_format_pieces" /\ chars >= Len(tmpl_vec)
    /\ IF start_word_idx > 0
       THEN Return(Err(ImbalancedBrackets))
       ELSE Return(Ok(out))
    /\ UNCHANGED <<fmap, tmpl, tmpl_vec, chars, start_word_idx, out, lookups>>
    /\ UNCHANGED render_vars

(* the iterator is exhausted: Ok(out) *)
ReturnPieces ==
    /\ pc = "to_format_pieces" /\ chars >= Len(tmpl_vec)
    /\ Return(Ok(out))
    /\ UNCHANGED <<fmap, tmpl, tmpl_vec, chars, start_word_idx, out, lookups>>
    /\ UNCHANGED render_vars

to_format_pieces ==
    \/ OpenPlaceholder
    \/ EscapedOpen
    \/ NestedOpen
    \/ EscapedClose
    \/ StrayClose
    \/ ClosePlaceholder
    \/ KeyChar
    \/ LiteralChar
    \/ ReturnPieces

---------------------------------------------------------------------------
(* render *)

(* a buffer kept from the call before and not cleared *)
with_stale_buffer(cap) == rout

(* String::with_capacity(cap): an empty String *)
with_capacity(cap) == <<>>

(* out.push(c) *)
push(o, c) == Append(o, c)

(* a callback's output that is not appended *)
write_nothing(o, s) == o

(* write!(&mut out, "{}", s): String's fmt::Write never fails *)
write(o, s) == o \o s

(* the FormatPieces<T> the caller unwrapped from to_format_pieces *)
fp == result.val

Rendering == pc = "render" /\ piece_idx < Len(fp)

(* the piece the for loop is at *)
Piece == fp[piece_idx + 1]

(* return from render: the result is also remembered per data value *)
RenderReturn(d, r) ==
    /\ rresult' = r
    /\ rendered' = IF rendered[d] = NoResult
                   THEN [rendered EXCEPT ![d] = r]
                   ELSE rendered
    /\ repeated' = IF rendered[d] = NoResult
                   THEN repeated
                   ELSE repeated \cup {d}
    /\ pc' = "idle"

(* fp.render(&d): the capacity computation, then the loop starts *)
RenderCall ==
    /\ pc = "idle" /\ result.tag = "Ok"
    /\ \E d \in DataValues :
        LET cap == checked_mul(Len(fp), 4)
        IN  /\ data' = d
            /\ calls' = <<>>
            /\ piece_idx' = 0
            /\ IF cap = None
               THEN /\ RenderReturn(d, Err(Overflow))
                    /\ UNCHANGED rout
               ELSE /\ rout' = with_capacity(cap.val)
                    /\ rresult' = NoResult
                    /\ pc' = "render"
                    /\ UNCHANGED <<rendered, repeated>>
    /\ UNCHANGED <<fmap, tmpl, tmpl_vec>>
    /\ UNCHANGED <<scan_vars, other>>

(* FormatPiece::Char(c) => out.push(c) *)
RenderChar ==
    /\ Rendering
    /\ Piece.tag = "Char"
    /\ rout' = push(rout, Piece.c)
    /\ piece_idx' = piece_idx + 1
    /\ UNCHANGED <<fmap, tmpl, tmpl_vec, pc, data, calls, rresult, rendered, repeated>>
    /\ UNCHANGED <<scan_vars, other>>

(* a piece that looks its key up in the map again at render time *)
RenderFormatterLookup ==
    /\ Rendering
    /\ Piece.tag = "Formatter"
    /\ LET f == Get(fmap, Piece.key)
           r == IF f = None THEN None ELSE CallCb(f.val, data)
       IN  /\ calls' = Append(calls, Piece.key)
           /\ IF r = None
              THEN /\ RenderReturn(data, Err(NoData(Piece.key)))
                   /\ UNCHANGED <<rout, piece_idx>>
              ELSE /\ rout' = write(rout, r.val)
                   /\ piece_idx' = piece_idx + 1
                   /\ UNCHANGED <<pc, rresult, rendered, repeated>>
    /\ UNCHANGED <<fmap, tmpl, tmpl_vec, data>>
    /\ UNCHANGED <<scan_vars, other>>

(* a None that is taken for an empty string: the loop goes on *)
RenderFormatterSkipNone ==
    /\ Rendering
    /\ Piece.tag = "Formatter"
    /\ LET r == CallCb(Piece.cb, data)
       IN  /\ calls' = Append(calls, Piece.key)
           /\ rout' = IF r = None THEN rout ELSE write(rout, r.val)
           /\ piece_idx' = piece_idx + 1
    /\ UNCHANGED <<fmap, tmpl, tmpl_vec, pc, data, rresult, rendered, repeated>>
    /\ UNCHANGED <<scan_vars, other>>

(* a Formatter arm that invokes its callback a second time *)
RenderFormatterCallsTwice ==
    /\ Rendering
    /\ Piece.tag = "Formatter"
    /\ LET r == CallCb(Piece.cb, data)
       IN  /\ calls' = calls \o <<Piece.key, Piece.key>>
           /\ IF r = None
              THEN /\ RenderReturn(data, Err(NoData(Piece.key)))
                   /\ UNCHANGED <<rout, piece_idx>>
              ELSE /\ rout' = write(rout, r.val)
                   /\ piece_idx' = piece_idx + 1
                   /\ UNCHANGED <<pc, rresult, rendered, repeated>>
    /\ UNCHANGED <<fmap, tmpl, tmpl_vec, data>>
    /\ UNCHANGED <<scan_vars, other>>

(* FormatPiece::Formatter(f) => write!(out, "{}", (f.cb)(data).ok_or(NoData)?) *)
RenderFormatter ==
    /\ Rendering
    /\ Piece.tag = "Formatter"
    /\ LET r == CallCb(Piece.cb, data)
       IN  /\ calls' = Append(calls, Piece.key)
           /\ IF r = None
              THEN /\ RenderReturn(data, Err(NoData(Piece.key)))
                   /\ UNCHANGED <<rout, piece_idx>>
              ELSE /\ rout' = write(rout, r.val)
                   /\ piece_idx' = piece_idx + 1
                   /\ UNCHANGED <<pc, rresult, rendered, repeated>>
    /\ UNCHANGED <<fmap, tmpl, tmpl_vec, data>>
    /\ UNCHANGED <<scan_vars, other>>

(* the loop is over: Ok(out) *)
RenderDone ==
    /\ pc = "render" /\ piece_idx >= Len(fp)
    /\ RenderReturn(data, Ok(rout))
    /\ UNCHANGED <<fmap, tmpl, tmpl_vec, data, piece_idx, rout, calls>>
    /\ UNCHANGED <<scan_vars, other>>

render ==
    \/ RenderCall
    \/ RenderChar
    \/ RenderFormatter
    \/ RenderDone

Next == to_format_pieces \/ render

Spec == Init /\ [][Next]_vars

---------------------------------------------------------------------------
(* The caller changes the map once to_format_pieces has returned *)

(* map.insert(key.to_string(), cb): a new entry, or another callback for   *)
(* a key the map holds                                                     *)
MapInsert ==
    /\ pc = "idle"
    /\ \E k \in PlainKeys, f \in Callbacks :
          /\ Get(fmap, k) # Some(f)
          /\ fmap' = [x \in DOMAIN fmap \cup {k} |-> IF x = k THEN f ELSE fmap[x]]
    /\ UNCHANGED <<tmpl, tmpl_vec>>
    /\ UNCHANGED <<pc, scan_vars, render_vars>>

(* map.remove(key); removing every entry leaves what a dropped map leaves  *)
MapRemove ==
    /\ pc = "idle"
    /\ \E k \in DOMAIN fmap :
          fmap' = [x \in DOMAIN fmap \ {k} |-> fmap[x]]
    /\ UNCHANGED <<tmpl, tmpl_vec>>
    /\ UNCHANGED <<pc, scan_vars, render_vars>>

NextMutate == Next \/ MapInsert \/ MapRemove

(* Compile once, then render and change the map in any order *)
SpecMutate == Init /\ [][NextMutate]_vars

---------------------------------------------------------------------------
(* render called by a second thread over the same FormatPieces<T>: the     *)
(* same code with its own locals                                           *)

OtherRendering == other.pc = "render" /\ other.piece_idx < Len(fp)

OtherPiece == fp[other.piece_idx + 1]

OtherCall ==
    /\ pc # "to_format_pieces" /\ result.tag = "Ok"
    /\ other.pc = "idle"
    /\ \E d \in DataValues :
        LET cap == checked_mul(Len(fp), 4)
        IN  other' = IF cap = None
                     THEN [NoCall EXCEPT !.data = d, !.result = Err(Overflow)]
                     ELSE [NoCall EXCEPT !.data = d, !.pc = "render",
                                         !.out = with_capacity(cap.val)]
    /\ UNCHANGED <<fmap, tmpl, tmpl_vec, pc, scan_vars>>
    /\ UNCHANGED <<data, piece_idx, rout, calls, rresult, rendered, repeated>>

(* both threads append to one buffer *)
OtherCharSharedOut ==
    /\ OtherRendering
    /\ OtherPiece.tag = "Char"
    /\ rout' = push(rout, OtherPiece.c)
    /\ other' = [other EXCEPT !.piece_idx = @ + 1]
    /\ UNCHANGED <<fmap, tmpl, tmpl_vec, pc, scan_vars>>
    /\ UNCHANGED <<data, piece_idx, calls, rresult, rendered, repeated>>

OtherChar ==
    /\ OtherRendering
    /\ OtherPiece.tag = "Char"
    /\ other' = [other EXCEPT !.out = push(@, OtherPiece.c), !.piece_idx = @ + 1]
    /\ UNCHANGED <<fmap, tmpl, tmpl_vec, pc, scan_vars>>
    /\ UNCHANGED <<data, piece_idx, rout, calls, rresult, rendered, repeated>>

OtherFormatter ==
    /\ OtherRendering
    /\ OtherPiece.tag = "Formatter"
    /\ LET r == CallCb(OtherPiece.cb, other.data)
       IN  other' = IF r = None
                    THEN [other EXCEPT !.calls = Append(@, OtherPiece.key),
                                       !.result = Err(NoData(OtherPiece.key)),
                                       !.pc = "idle"]
                    ELSE [other EXCEPT !.calls = Append(@, OtherPiece.key),
                                       !.out = write(@, r.val),
                                       !.piece_idx = @ + 1]
    /\ UNCHANGED <<fmap, tmpl, tmpl_vec, pc, scan_vars>>
    /\ UNCHANGED <<data, piece_idx, rout, calls, rresult, rendered, repeated>>

OtherDone ==
    /\ other.pc = "render" /\ other.piece_idx >= Len(fp)
    /\ other' = [other EXCEPT !.result = Ok(other.out), !.pc = "idle"]
    /\ UNCHANGED <<fmap, tmpl, tmpl_vec, pc, scan_vars>>
    /\ UNCHANGED <<data, piece_idx, rout, calls, rresult, rendered, repeated>>

render_other ==
    \/ OtherCall
    \/ OtherChar
    \/ OtherFormatter
    \/ OtherDone

NextConcurrent == Next \/ render_other

(* Compile once, then two threads render in any interleaving *)
InitConcurrent ==
    \E m \in FormatMaps(PlainKeys), t \in SeqsUpTo(Alphabet, MaxSharedLen) : Start(m, t)

SpecConcurrent == InitConcurrent /\ [][NextConcurrent]_vars

SpecCompile == InitCompile /\ [][to_format_pieces]_vars

(* FormatPieces<T> is a public Vec: the state in which a caller holds the  *)
(* piece sequence ps, built by hand, and has not rendered it yet           *)
PiecesBuilt(ps) ==
    /\ fmap = <<>>
    /\ tmpl = <<>>
    /\ tmpl_vec = <<>>
    /\ pc = "idle"
    /\ chars = 0
    /\ start_word_idx = 0
    /\ out = ps
    /\ lookups = <<>>
    /\ result = Ok(ps)
    /\ data = <<>>
    /\ piece_idx = 0
    /\ rout = <<>>
    /\ calls = <<>>
    /\ rresult = NoResult
    /\ rendered = [d \in DataValues |-> NoResult]
    /\ repeated = {}
    /\ other = NoCall

(* the pieces short sequences are built from *)
PieceValues ==
    {Char("k"), Char(Ideograph)} \cup {Formatter(<<"k">>, f) : f \in Callbacks}

(* a sequence of n pieces whose first callback ends the call: a Formatter  *)
(* without data, then literals                                             *)
LongPieces(n) ==
    [i \in 1..n |-> IF i = 1 THEN Formatter(<<"k">>, "nodata") ELSE Char("k")]

(* the lengths on both sides of the largest one whose capacity fits *)
LongLengths ==
    (UsizeMax \div 4 - CapacityWindow + 1)..(UsizeMax \div 4 + CapacityWindow)

(* Render alone, over short sequences of every shape and over sequences    *)
(* as long as a 16-bit address space is taken to hold                      *)
InitCapacity ==
    \/ \E ps \in SeqsUpTo(PieceValues, MaxPieces) : PiecesBuilt(ps)
    \/ \E n \in LongLengths : PiecesBuilt(LongPieces(n))

SpecCapacity == InitCapacity /\ [][render]_vars

TypeOK ==
    /\ pc \in {"to_format_pieces", "idle", "render"}
    /\ chars \in 0..Len(tmpl_vec)
    /\ start_word_idx \in 0..Len(tmpl_vec)
    /\ tmpl_vec \in Seq(Alphabet)
    /\ Len(tmpl) >= Len(tmpl_vec)

---------------------------------------------------------------------------
(* Vocabulary of the properties *)

Braces == {OpenBrace, CloseBrace}

Min(S) == CHOOSE x \in S : \A y \in S : x <= y

(* to_format_pieces has returned *)
Compiled == pc # "to_format_pieces"

(* the last render call has returned and no other is in progress *)
Rendered == pc = "idle" /\ rresult # NoResult

HasFormatter(ps) == \E i \in 1..Len(ps) : ps[i].tag = "Formatter"
HasChar(ps) == \E i \in 1..Len(ps) : ps[i].tag = "Char"

(* the pieces whose callback has nothing to produce for d *)
Failing(ps, d) ==
    {i \in 1..Len(ps) : ps[i].tag = "Formatter" /\ CallCb(ps[i].cb, d) = None}

(* What the template syntax says a template t stands for, read from        *)
(* position i (1-based) on: {{ and }} are one brace, {key} is the output   *)
(* of the callback registered for key, anything else is itself. A          *)
(* placeholder the template ends in contributes nothing.                   *)
RECURSIVE Expansion(_, _, _, _)
Expansion(t, i, m, d) ==
    IF i > Len(t) THEN <<>>
    ELSE IF t[i] = OpenBrace
    THEN IF i < Len(t) /\ t[i + 1] = OpenBrace
         THEN <<OpenBrace>> \o Expansion(t, i + 2, m, d)
         ELSE LET closes == {j \in (i + 1)..Len(t) : t[j] = CloseBrace}
              IN  IF closes = {} THEN <<>>
                  ELSE CallCb(m[SubSeq(t, i + 1, Min(closes) - 1)], d).val
                           \o Expansion(t, Min(closes) + 1, m, d)
    ELSE IF t[i] = CloseBrace
    THEN <<CloseBrace>> \o Expansion(t, i + 2, m, d)
    ELSE <<t[i]>> \o Expansion(t, i + 1, m, d)

---------------------------------------------------------------------------
(* C1: when a template compiles and every callback held by a Formatter     *)
(* piece returns Some for the data, render returns Ok and the output is    *)
(* the concatenation, in template order, of the literal characters and     *)
(* the callbacks' strings.                                                 *)
C1_RenderConcatenates ==
    (Rendered /\ Failing(fp, data) = {})
        => rresult = Ok(Expansion(tmpl_vec, 1, fmap, data))

(* a render of literals and a callback's output has returned *)
C1_Witness ==
    /\ Rendered
    /\ HasFormatter(fp) /\ HasChar(fp)
    /\ data # <<>>
    /\ rresult.tag = "Ok" /\ Len(rresult.val) > Len(fp)

---------------------------------------------------------------------------
(* C2: a template without braces compiles under every map, and its         *)
(* rendering is the template itself for every data value.                  *)
NoBraces(t) == \A i \in 1..Len(t) : t[i] \notin Braces

C2_BraceFreeIdentity ==
    NoBraces(tmpl_vec) =>
        /\ Compiled => result = Ok([i \in 1..Len(tmpl_vec) |-> Char(tmpl_vec[i])])
        /\ Rendered => rresult = Ok(tmpl_vec)

C2_Witness ==
    /\ NoBraces(tmpl_vec) /\ Len(tmpl_vec) >= 2
    /\ tmpl_vec[1] # tmpl_vec[2]
    /\ fmap # <<>>
    /\ data # <<>>
    /\ Rendered /\ rresult = Ok(tmpl_vec)

---------------------------------------------------------------------------
(* C3: a template made of the pairs {{ and }} only *)
EscapesOnly(t) ==
    /\ Len(t) % 2 = 0
    /\ \A i \in 1..(Len(t) \div 2) : t[2 * i] \in Braces /\ t[2 * i - 1] = t[2 * i]

(* each pair replaced by one brace of its kind *)
Collapsed(t) == [i \in 1..(Len(t) \div 2) |-> t[2 * i]]

EscapesResult ==
    /\ lookups = <<>>
    /\ Compiled =>
          result = Ok([i \in 1..(Len(tmpl_vec) \div 2) |-> Char(Collapsed(tmpl_vec)[i])])
    /\ Rendered => rresult = Ok(Collapsed(tmpl_vec))

(* C3 as stated: such a template compiles under every map and renders to   *)
(* one brace per pair; no placeholder is opened and no key is looked up.   *)
C3_Original ==
    EscapesOnly(tmpl_vec) => (start_word_idx = 0 /\ EscapesResult)

(* C3 as amended: such a template compiles under every map and renders to  *)
(* one brace per pair; no key is looked up and no Formatter piece is made. *)
(* A placeholder is open only between the two braces of a {{ pair: the     *)
(* first brace opens it and the second closes it again.                    *)
C3_EscapesCollapse ==
    EscapesOnly(tmpl_vec) =>
        /\ EscapesResult
        /\ start_word_idx # 0 =>
              /\ pc = "to_format_pieces"
              /\ chars = start_word_idx /\ chars % 2 = 1
              /\ tmpl_vec[chars] = OpenBrace /\ tmpl_vec[chars + 1] = OpenBrace

C3_Witness ==
    /\ EscapesOnly(tmpl_vec)
    /\ \E i, j \in 1..Len(tmpl_vec) : tmpl_vec[i] = OpenBrace /\ tmpl_vec[j] = CloseBrace
    /\ fmap # <<>>
    /\ Rendered /\ rresult = Ok(Collapsed(tmpl_vec))

---------------------------------------------------------------------------
(* The scan is at a brace: the item chars.next() is about to yield *)
AtClose == Scanning /\ Cur = CloseBrace
AtOpen == Scanning /\ Cur = OpenBrace

(* to_format_pieces returns the error e in this step, reading no further *)
Fails(e) == pc' = "idle" /\ result' = Err(e) /\ chars' = chars

(* The characters between the last opening brace among the first n         *)
(* characters of t and character n + 1                                     *)
KeyBefore(t, n) ==
    LET opens == {j \in 1..n : t[j] = OpenBrace}
        last == CHOOSE j \in opens : \A k \in opens : k <= j
    IN  SubSeq(t, last + 1, n)

(* C4: when the scan reaches the closing brace of a placeholder whose key  *)
(* (possibly empty) is not in the map, to_format_pieces returns UnknownKey *)
(* with exactly that key, read from the template; it reads no further, and *)
(* what it returned stays.                                                 *)
C4_UnknownKeyReported ==
    [][ /\ (AtClose /\ start_word_idx # 0
              /\ KeyBefore(tmpl_vec, chars) \notin DOMAIN fmap)
            => Fails(UnknownKey(KeyBefore(tmpl_vec, chars)))
        /\ Compiled => (result' = result /\ chars' = chars) ]_vars

(* an unknown key was reported with pieces before and text after it *)
C4_Witness ==
    /\ Compiled
    /\ result = Err(UnknownKey(<<Ideograph>>))
    /\ out # <<>>
    /\ chars + 1 < Len(tmpl_vec)
    /\ fmap # <<>>

---------------------------------------------------------------------------
(* C5: a closing brace met while no placeholder is open and not followed   *)
(* by another closing brace makes to_format_pieces return                  *)
(* ImbalancedBrackets; so does {key}} for every key of the map.            *)
C5_StrayCloseRejected ==
    [][ /\ (AtClose /\ start_word_idx = 0
              /\ (chars + 2 > Len(tmpl_vec) \/ tmpl_vec[chars + 2] # CloseBrace))
            => Fails(ImbalancedBrackets)
        /\ (pc' = "idle"
              /\ \E k \in DOMAIN fmap :
                    NoBraces(k) /\ tmpl_vec = <<OpenBrace>> \o k \o <<CloseBrace, CloseBrace>>)
            => result' = Err(ImbalancedBrackets) ]_vars

(* {k}} with k registered: the placeholder was closed, the next brace is   *)
(* the error                                                               *)
C5_Witness ==
    /\ Compiled
    /\ tmpl_vec = <<OpenBrace, "k", CloseBrace, CloseBrace>>
    /\ <<"k">> \in DOMAIN fmap
    /\ Len(out) = 1 /\ out[1].tag = "Formatter"
    /\ result = Err(ImbalancedBrackets)

---------------------------------------------------------------------------
(* C6: an opening brace met while a placeholder is open and a key          *)
(* character was scanned just before it makes to_format_pieces return      *)
(* ImbalancedBrackets, whatever the map.                                   *)
C6_NestedOpenRejected ==
    [][ (AtOpen /\ start_word_idx # 0
          /\ chars >= 1 /\ tmpl_vec[chars] \notin Braces)
        => Fails(ImbalancedBrackets) ]_vars

C6_Witness ==
    /\ Compiled
    /\ result = Err(ImbalancedBrackets)
    /\ start_word_idx # 0
    /\ chars > start_word_idx
    /\ chars < Len(tmpl_vec) /\ tmpl_vec[chars + 1] = OpenBrace
    /\ fmap # <<>>

---------------------------------------------------------------------------
(* the keys of the Formatter pieces among the first n pieces, in order *)
FormatterKeys(ps, n) ==
    LET fs == SelectSeq(SubSeq(ps, 1, n), LAMBDA p : p.tag = "Formatter")
    IN  [j \in 1..Len(fs) |-> fs[j].key]

(* C7: when some Formatter piece's callback returns None, render returns   *)
(* NoData with the key of the first such piece; it returns no string, it   *)
(* stopped at that piece and invoked no callback after it.                 *)
C7_FirstNoDataReported ==
    (Rendered /\ Failing(fp, data) # {}) =>
        LET first == Min(Failing(fp, data))
        IN  /\ rresult = Err(NoData(fp[first].key))
            /\ piece_idx = first - 1
            /\ calls = FormatterKeys(fp, first)

(* two pieces with different keys have no data; the first was reported *)
C7_Witness ==
    /\ Rendered
    /\ \E i, j \in Failing(fp, data) :
          /\ i < j /\ fp[i].key # fp[j].key
          /\ rresult = Err(NoData(fp[i].key))

---------------------------------------------------------------------------
(* The brackets of t are balanced from position i on: braces come as the   *)
(* pairs {{ and }}, or as one opening brace matched by a later closing     *)
(* brace with no brace between them.                                       *)
RECURSIVE Balanced(_, _)
Balanced(t, i) ==
    IF i > Len(t) THEN TRUE
    ELSE IF t[i] = OpenBrace
    THEN IF i < Len(t) /\ t[i + 1] = OpenBrace
         THEN Balanced(t, i + 2)
         ELSE LET braces == {j \in (i + 1)..Len(t) : t[j] \in Braces}
              IN  /\ braces # {}
                  /\ t[Min(braces)] = CloseBrace
                  /\ Balanced(t, Min(braces) + 1)
    ELSE IF t[i] = CloseBrace
    THEN i < Len(t) /\ t[i + 1] = CloseBrace /\ Balanced(t, i + 2)
    ELSE Balanced(t, i + 1)

IsUnknownKey(r) == r.tag = "Err" /\ r.err.kind = "UnknownKey"

(* C8: to_format_pieces returns ImbalancedBrackets for every template with *)
(* imbalanced brackets (an opening brace never closed, a placeholder still *)
(* open at the end included, or a closing brace never opened), unless it   *)
(* returned UnknownKey before.                                             *)
C8_ImbalanceAlwaysReported ==
    (Compiled /\ ~Balanced(tmpl_vec, 1) /\ ~IsUnknownKey(result))
        => result = Err(ImbalancedBrackets)

---------------------------------------------------------------------------
(* C9: for every key K of the map that contains a brace, compiling the     *)
(* template {K} fails with ImbalancedBrackets, whatever else the map holds.*)
C9_BraceKeyImbalanced ==
    (Compiled
      /\ \E K \in DOMAIN fmap :
            ~NoBraces(K) /\ tmpl_vec = <<OpenBrace>> \o K \o <<CloseBrace>>)
        => result = Err(ImbalancedBrackets)

---------------------------------------------------------------------------
(* What one render call of the pieces ps with the data d returns when it   *)
(* is the only call ever made: pieces i.. are still to do, acc is the      *)
(* output so far.                                                          *)
RECURSIVE RenderAlone(_, _, _, _)
RenderAlone(ps, i, d, acc) ==
    IF i > Len(ps) THEN Ok(acc)
    ELSE IF ps[i].tag = "Char" THEN RenderAlone(ps, i + 1, d, Append(acc, ps[i].c))
    ELSE IF CallCb(ps[i].cb, d) = None THEN Err(NoData(ps[i].key))
    ELSE RenderAlone(ps, i + 1, d, acc \o CallCb(ps[i].cb, d).val)

(* C10: whatever renders came before, successful or failing, with the same *)
(* or another data value, render(pieces, d) returns what it returns alone  *)
(* and what the first render with d returned; no step after compilation    *)
(* changes the piece sequence.                                             *)
C10_RenderRepeatable ==
    [][ /\ Compiled => result' = result
        /\ (pc' = "idle" /\ rresult' # NoResult) =>
              /\ rresult' = RenderAlone(result'.val, 1, data', <<>>)
              /\ rresult' = rendered'[data'] ]_vars

(* every data value was rendered more than once, one failing and one not *)
C10_Witness ==
    /\ Rendered
    /\ repeated = DataValues
    /\ HasFormatter(fp) /\ HasChar(fp)
    /\ rendered[<<>>].tag = "Err"
    /\ rendered[<<"Q">>].tag = "Ok"
    /\ data = <<"Q">>

---------------------------------------------------------------------------
(* C11: each Formatter piece is made with the callback the map holds for   *)
(* its key while to_format_pieces runs; once it has returned, inserting,   *)
(* replacing or removing entries of the map changes neither the piece      *)
(* sequence nor what a later render returns: the callbacks the pieces hold *)
(* decide it, as in the first render with that data.                       *)
C11_MapChangeNoEffect ==
    [][ /\ pc = "to_format_pieces" =>
              /\ fmap' = fmap
              /\ \A i \in 1..Len(out') :
                    out'[i].tag = "Formatter" => Get(fmap, out'[i].key) = Some(out'[i].cb)
        /\ Compiled => result' = result
        /\ (pc' = "idle" /\ rresult' # NoResult) =>
              /\ rresult' = RenderAlone(result'.val, 1, data', <<>>)
              /\ rresult' = rendered'[data'] ]_vars

(* a render that began after every entry was removed has invoked the       *)
(* pieces' callbacks and rebuilt the output of the first render            *)
C11_Witness ==
    /\ pc = "render" /\ piece_idx = Len(fp)
    /\ fmap = <<>>
    /\ calls # <<>>
    /\ rendered[data] = Ok(rout)

---------------------------------------------------------------------------
(* C12: when two threads render the same compiled pieces at once, under    *)
(* every interleaving of their steps each call returns what it returns     *)
(* when run alone, and no step changes the shared piece sequence.          *)
C12_ConcurrentRenders ==
    [][ /\ Compiled => result' = result
        /\ (pc' = "idle" /\ rresult' # NoResult) =>
              rresult' = RenderAlone(result'.val, 1, data', <<>>)
        /\ (other'.pc = "idle" /\ other'.result # NoResult) =>
              other'.result = RenderAlone(result'.val, 1, other'.data, <<>>) ]_vars

(* both calls are under way with different data, each has invoked a        *)
(* callback and written output of its own                                  *)
C12_Witness ==
    /\ pc = "render" /\ other.pc = "render"
    /\ data # other.data
    /\ calls # <<>> /\ other.calls # <<>>
    /\ piece_idx < Len(fp) /\ other.piece_idx < piece_idx
    /\ rout # other.out /\ other.out # <<>>

---------------------------------------------------------------------------
(* the number of characters b among the first n characters of t *)
Count(b, t, n) == Cardinality({i \in 1..n : t[i] = b})

(* the number of literal pieces Char(b) in ps *)
CharPieces(ps, b) == Cardinality({i \in 1..Len(ps) : ps[i] = Char(b)})

(* the number of Formatter pieces in ps *)
Formatters(ps) == Cardinality({i \in 1..Len(ps) : ps[i].tag = "Formatter"})

(* C13: every consumed brace is accounted for as half of an escape pair    *)
(* or as the opening or closing brace of a placeholder: at every step of   *)
(* the scan, and so in every returned sequence, twice the number of        *)
(* literal pieces Char(b) plus the number of placeholders (closed, or      *)
(* still open for an opening brace) is the number of braces b consumed. A  *)
(* single unescaped brace is never a literal piece.                        *)
C13_LiteralBracesFromPairs ==
    /\ Count(OpenBrace, tmpl_vec, chars)
          = 2 * CharPieces(out, OpenBrace) + Formatters(out)
              + (IF start_word_idx > 0 THEN 1 ELSE 0)
    /\ Count(CloseBrace, tmpl_vec, chars)
          = 2 * CharPieces(out, CloseBrace) + Formatters(out)
    /\ result.tag = "Ok" => result.val = out /\ chars = Len(tmpl_vec)

(* a returned sequence with a literal brace next to a placeholder, as for  *)
(* the templates {{{k} and {k}}}                                           *)
C13_Witness ==
    /\ result.tag = "Ok"
    /\ HasFormatter(result.val)
    /\ CharPieces(result.val, OpenBrace) + CharPieces(result.val, CloseBrace) = 1
    /\ Count(OpenBrace, tmpl_vec, Len(tmpl_vec))
          + Count(CloseBrace, tmpl_vec, Len(tmpl_vec)) = 4

---------------------------------------------------------------------------
(* the bytes 10xxxxxx inside the encoding of a multi-byte scalar value *)
ContinuationBytes == {"B8", "80"}

(* the number of scalar values a UTF-8 byte sequence holds *)
Scalars(b) == Cardinality({i \in 1..Len(b) : b[i] \notin ContinuationBytes})

(* the number of bytes of tmpl before its character of 0-based index n *)
Boundary(n) ==
    IF n >= Scalars(tmpl)
    THEN Len(tmpl)
    ELSE (CHOOSE i \in 1..Len(tmpl) :
             /\ tmpl[i] \notin ContinuationBytes
             /\ Scalars(SubSeq(tmpl, 1, i)) = n + 1) - 1

(* the last brace of t before position i, 0 when there is none *)
LastBrace(t, i) ==
    LET S == {j \in 1..(i - 1) : t[j] \in Braces}
    IN  IF S = {} THEN 0 ELSE CHOOSE j \in S : \A x \in S : x <= j

(* the length of the run of opening braces of t that ends at position j *)
OpenRun(t, j) == j + 1 - Min({x \in 1..j : \A y \in x..j : t[y] = OpenBrace})

(* position i of an error-free prefix of t lies inside a placeholder: the  *)
(* last brace before it is an opening brace that is not the second half    *)
(* of an escape pair                                                       *)
InKey(t, i) ==
    LET j == LastBrace(t, i)
    IN  j > 0 /\ t[j] = OpenBrace /\ OpenRun(t, j) % 2 = 1

(* the key w of tmpl lies between byte offsets that are character          *)
(* boundaries, with the opening brace before it and the closing brace,     *)
(* which ends at byte offset e, after it                                   *)
KeyAtBoundaries(w, e) ==
    LET n == Len(as_bytes(w))
    IN  /\ w \in Seq(Alphabet \ Braces)
        /\ e - n - 1 >= 1
        /\ tmpl[e] = CloseBrace
        /\ SubSeq(tmpl, e - n, e - 1) = as_bytes(w)
        /\ tmpl[e - n - 1] = OpenBrace
        /\ \E a, b \in 0..Len(tmpl_vec) : Boundary(a) = e - n - 1 /\ Boundary(b) = e - 1

(* C14: the scan runs over scalar values, not bytes. The character vector  *)
(* holds one entry per scalar value of the template; every multi-byte      *)
(* character consumed outside a placeholder is exactly one literal piece;  *)
(* render writes each such piece as the same character, so a brace-free    *)
(* template is rendered to the same bytes; and every key looked up is the  *)
(* byte range between two character boundaries of the template.            *)
C14_ScannedByScalarValue ==
    /\ Len(tmpl_vec) = Scalars(tmpl)
    /\ as_bytes(tmpl_vec) = tmpl
    /\ CharPieces(out, Ideograph)
          = Cardinality({i \in 1..chars : tmpl_vec[i] = Ideograph /\ ~InKey(tmpl_vec, i)})
    /\ \A i \in 1..Len(out) : out[i].tag = "Char" => out[i].c \in Alphabet
    /\ (out # <<>> /\ out[Len(out)].tag = "Formatter" /\ start_word_idx = 0)
          => KeyAtBoundaries(out[Len(out)].key, Boundary(chars))
    /\ IsUnknownKey(result)
          => KeyAtBoundaries(result.err.key, Boundary(chars) + 1)
    /\ pc = "render"
          => Count(Ideograph, rout, Len(rout))
               = CharPieces(SubSeq(fp, 1, piece_idx), Ideograph)
    /\ (Rendered /\ NoBraces(tmpl_vec))
          => rresult.tag = "Ok" /\ as_bytes(rresult.val) = tmpl

(* a template with a multi-byte character on either side of a placeholder  *)
(* has been compiled and rendered                                          *)
C14_Witness ==
    /\ Rendered /\ rresult.tag = "Ok"
    /\ Len(tmpl_vec) = 5 /\ Len(tmpl) = 9
    /\ tmpl_vec[1] = Ideograph /\ tmpl_vec[5] = Ideograph
    /\ Len(fp) = 3 /\ fp[2].tag = "Formatter" /\ fp[2].key = <<"k">>
    /\ Count(Ideograph, rresult.val, Len(rresult.val)) = 2

---------------------------------------------------------------------------
(* C15: the capacity is piece count * 4, checked. A render call returns    *)
(* Overflow exactly when the product is above the largest machine word,    *)
(* and then no callback has been invoked; the loop is never entered with   *)
(* a product that does not fit.                                            *)
C15_CapacityChecked ==
    /\ pc = "render" => Len(fp) <= UsizeMax \div 4
    /\ (pc = "idle" /\ rresult # NoResult) =>
          (rresult = Err(Overflow) <=> Len(fp) > UsizeMax \div 4)
    /\ rresult = Err(Overflow) => calls = <<>> /\ rout = <<>>

(* a call over the shortest sequence whose capacity does not fit has       *)
(* returned Overflow                                                       *)
C15_Witness ==
    /\ pc = "idle" /\ rresult = Err(Overflow)
    /\ Len(fp) = UsizeMax \div 4 + 1
    /\ fp[1].tag = "Formatter" /\ calls = <<>>

---------------------------------------------------------------------------
(* the placeholders closed within the first n characters of t *)
Placeholders(t, n) == Cardinality({i \in 1..n : t[i] = CloseBrace /\ InKey(t, i)})

(* the pieces the first n characters of t stand for, when they hold no     *)
(* error: one for each character outside a placeholder that is no brace,   *)
(* one for each closed placeholder, one for each pair of the braces left   *)
RefPieces(t, n) ==
    LET P == Placeholders(t, n)
        open == IF InKey(t, n + 1) THEN 1 ELSE 0
    IN  Cardinality({i \in 1..n : t[i] \notin Braces /\ ~InKey(t, i)})
          + P
          + (Count(CloseBrace, t, n) - P) \div 2
          + (Count(OpenBrace, t, n) - P - open) \div 2

(* C16: at every step of the scan and in the result, the pieces emitted    *)
(* are one per literal character, one per escape pair and one per whole    *)
(* placeholder of the characters consumed, so there are at most as many    *)
(* pieces as characters consumed, and at most as many as the template has. *)
C16_PiecesBoundedByChars ==
    /\ Len(out) = RefPieces(tmpl_vec, chars)
    /\ Len(out) <= chars
    /\ chars <= Len(tmpl_vec)
    /\ result.tag = "Ok" => Len(result.val) <= Len(tmpl_vec)

(* five characters, an escape pair and a placeholder with a key, gave two  *)
(* pieces                                                                  *)
C16_Witness ==
    /\ result.tag = "Ok"
    /\ Len(tmpl_vec) = 5 /\ Len(result.val) = 2
    /\ \E i \in 1..2 : result.val[i].tag = "Formatter" /\ Len(result.val[i].key) = 1
    /\ CharPieces(result.val, CloseBrace) = 1

---------------------------------------------------------------------------
(* The scanner of the design: one pass with one character of lookahead. i  *)
(* is the cursor, w the word-start marker (0 when unset, else the position *)
(* of the first character of the key), acc the pieces emitted so far.      *)
RECURSIVE LookaheadScan(_, _, _, _, _)
LookaheadScan(t, m, i, w, acc) ==
    IF i > Len(t)
    THEN Ok(acc)
    ELSE LET c == t[i]
             pair == i < Len(t) /\ t[i + 1] = c
         IN  CASE c = OpenBrace /\ w = 0 ->
                    IF pair
                    THEN LookaheadScan(t, m, i + 2, 0, Append(acc, Char(OpenBrace)))
                    ELSE LookaheadScan(t, m, i + 1, i + 1, acc)
               [] c = OpenBrace /\ w # 0 -> Err(ImbalancedBrackets)
               [] c = CloseBrace /\ w = 0 ->
                    IF pair
                    THEN LookaheadScan(t, m, i + 2, 0, Append(acc, Char(CloseBrace)))
                    ELSE Err(ImbalancedBrackets)
               [] c = CloseBrace /\ w # 0 ->
                    LET key == SubSeq(t, w, i - 1)
                    IN  IF key \in DOMAIN m
                        THEN LookaheadScan(t, m, i + 1, 0, Append(acc, Formatter(key, m[key])))
                        ELSE Err(UnknownKey(key))
               [] c \notin Braces /\ w # 0 -> LookaheadScan(t, m, i + 1, w, acc)
               [] OTHER -> LookaheadScan(t, m, i + 1, 0, Append(acc, Char(c)))

(* C18: for every template and map, the scanner that opens a placeholder   *)
(* on every opening brace and takes an opening brace right at the word     *)
(* start for the escape returns what the scanner with one character of     *)
(* lookahead returns: the same pieces or the same error.                   *)
C18_SameAsLookaheadScanner ==
    Compiled => result = LookaheadScan(tmpl_vec, fmap, 1, 0, <<>>)

(* the template {{{k}}} gave a literal brace, the placeholder k and a      *)
(* literal brace                                                           *)
C18_Witness ==
    /\ tmpl_vec = BraceRuns
    /\ result.tag = "Ok" /\ Len(result.val) = 3
    /\ result.val[1] = Char(OpenBrace)
    /\ result.val[2].tag = "Formatter" /\ result.val[2].key = <<"k">>
    /\ result.val[3] = Char(CloseBrace)

---------------------------------------------------------------------------
(* position j of t is an opening brace that opens a placeholder no later   *)
(* character closes: no brace follows it, it is not the second half of an  *)
(* escape pair and not inside a placeholder, and the text before it        *)
(* compiles                                                                *)
OpenAtEnd(t, j) ==
    /\ t[j] = OpenBrace
    /\ NoBraces(SubSeq(t, j + 1, Len(t)))
    /\ ~InKey(t, j)
    /\ LookaheadScan(SubSeq(t, 1, j - 1), fmap, 1, 0, <<>>).tag = "Ok"

---------------------------------------------------------------------------
---------------------------------------------------------------------------
(* C20: within one render call the callbacks invoked so far are those of   *)
(* the Formatter pieces passed so far, in piece order and once each; each  *)
(* invocation is made with the data of the call, which no step changes;    *)
(* when the call returns Ok every Formatter piece's callback has been      *)
(* invoked once; when a callback returns None the call ends there, with    *)
(* no callback of a later piece invoked.                                   *)
C20_CallbacksInOrderOnce ==
    [][ /\ pc' = "render" => calls' = FormatterKeys(result'.val, piece_idx')
        /\ pc = "render" =>
              /\ data' = data
              /\ calls' # calls =>
                    /\ Piece.tag = "Formatter"
                    /\ calls' = Append(calls, Piece.key)
                    /\ LET r == CallCb(Piece.cb, data)
                       IN  IF r = None
                           THEN /\ pc' = "idle"
                                /\ rresult' = Err(NoData(Piece.key))
                                /\ piece_idx' = piece_idx
                           ELSE /\ pc' = "render"
                                /\ rout' = rout \o r.val
                                /\ piece_idx' = piece_idx + 1
        /\ (pc' = "idle" /\ rresult'.tag = "Ok") =>
              /\ calls' = FormatterKeys(result'.val, Len(result'.val))
              /\ \A i \in 1..Len(result'.val) :
                    result'.val[i].tag = "Formatter"
                       => CallCb(result'.val[i].cb, data') # None
        /\ (pc' = "idle" /\ rresult'.tag = "Err" /\ rresult'.err.kind = "NoData") =>
              /\ calls' = FormatterKeys(result'.val, piece_idx' + 1)
              /\ CallCb(result'.val[piece_idx' + 1].cb, data') = None
              /\ piece_idx' < Len(result'.val)
        /\ (pc = "idle" /\ pc' = "idle") => calls' = calls \/ calls' = <<>> ]_vars

(* a call over two Formatter pieces with different keys has invoked both   *)
(* callbacks, in piece order, and is about to return Ok                    *)
C20_Witness ==
    /\ pc = "render" /\ piece_idx = Len(fp)
    /\ Len(fp) = 2
    /\ Len(calls) = 2 /\ calls[1] # calls[2] /\ calls[1] = fp[1].key
    /\ data # <<>>

===========================================================================
